---- MODULE Spec2Model ----
(***************************************************************************)
(* A model of scisample's sampler dispatch (samplers.py), the cross       *)
(* product sampler (cross_product.py) and the range sampler that wraps    *)
(* the UQPipeline point generator (uqpipeline_sample.py).                  *)
(*                                                                         *)
(* A Python dict is a sequence of [k, v] entries with distinct keys, in    *)
(* insertion order.  A scalar is a record [t, n, s]: t is the Python type  *)
(* ("int", "float", "str", "NoneType"), n the number, s the characters of  *)
(* a string.  A sample (a dict built by get_samples) is a function from    *)
(* its keys to scalars.                                                    *)
(***************************************************************************)
EXTENDS Integers, Sequences, FiniteSets, TLC

\* ------------------------------------------------------------------ bounds
MaxConstants == 1
MaxParams == 2
MaxLen == 2
MaxMutations == 1

\* ------------------------------------------------------------------ values
Int_(n) == [t |-> "int", n |-> n, s |-> << >>]
Float_(tenths) == [t |-> "float", n |-> tenths, s |-> << >>]
Str_(chars) == [t |-> "str", n |-> 0, s |-> chars]
None_ == [t |-> "NoneType", n |-> 0, s |-> << >>]


\* a value of the `parameters` mapping: a list of scalars, or a mapping that
\* may hold the keys 'min' and 'max'
ListEntry(items) == [shape |-> "list", items |-> items, keys |-> {},
                     min |-> None_, max |-> None_]
MapEntry(keys, lo, hi) == [shape |-> "map", items |-> << >>, keys |-> keys,
                           min |-> lo, max |-> hi]

\* ------------------------------------------------------- dict primitives
RECURSIVE SeqToSet(_)
SeqToSet(s) == IF s = << >> THEN {} ELSE {Head(s)} \cup SeqToSet(Tail(s))

Keys(d) == [i \in 1..Len(d) |-> d[i].k]
HasKey(d, key) == \E i \in 1..Len(d) : d[i].k = key

\* d[key] = v : replaces in place, or appends
DictSet(d, key, v) ==
    IF HasKey(d, key)
    THEN [i \in 1..Len(d) |-> IF d[i].k = key THEN [k |-> key, v |-> v] ELSE d[i]]
    ELSE Append(d, [k |-> key, v |-> v])

\* del d[key]
DictDel(d, key) == SelectSeq(d, LAMBDA e : e.k # key)

\* new_sample[key] = value, on a sample
SampleSet(smp, key, v) ==
    [x \in (DOMAIN smp) \cup {key} |-> IF x = key THEN v ELSE smp[x]]

EmptySample == [x \in {} |-> None_]

\* ------------------------------------------------------------ state
VARIABLES
    sampler_data,        \* the configuration mapping (self._data aliases it)
    inst,                \* class of the live sampler instance, or "none"
    _samples,            \* the instance's sample cache
    call,                \* the last call made by the caller: its operation, the
                         \* configuration it ran on, and its outcome
    ctor_calls,          \* number of sampler constructors entered so far
    UQPIPELINE_SAMPLE,   \* module flag of uqpipeline_sample.py
    module,              \* import state of uqpipeline_sample.py
    nmut                 \* number of caller mutations of the configuration

vars == <<sampler_data, inst, _samples, call, ctor_calls,
          UQPIPELINE_SAMPLE, module, nmut>>

\* the cache: None, or a list
NotComputed == [isNone |-> TRUE, list |-> << >>]
Cached(l) == [isNone |-> FALSE, list |-> l]

\* outcomes of a step that may raise
Ok == [exc |-> "none", msg |-> "none", key |-> "none"]
Exc(exc, msg, key) == [exc |-> exc, msg |-> msg, key |-> key]

\* ---------------------------------------------------- the configuration
\* sampler_data: `keys` are the top-level keys present; the field of an
\* absent key holds a default that no code path reads
Config(keys, type, constants, parameters, num_samples) ==
    [keys |-> keys, type |-> type, constants |-> constants,
     parameters |-> parameters, num_samples |-> num_samples]

Has(data, key) == key \in data.keys

NoCall == [op |-> "none", status |-> "none", exc |-> "none", msg |-> "none",
           key |-> "none", computed |-> FALSE, value |-> << >>,
           data |-> Config({}, "", << >>, << >>, None_)]
Returned(op, data, computed, v) ==
    [op |-> op, status |-> "returned", exc |-> "none", msg |-> "none",
     key |-> "none", computed |-> computed, value |-> v, data |-> data]
Raised(op, data, e) ==
    [op |-> op, status |-> "raised", exc |-> e.exc, msg |-> e.msg,
     key |-> e.key, computed |-> FALSE, value |-> << >>, data |-> data]

\* ------------------------------------------ BaseSampler (base_sampler.py)
\* log_and_raise_exception(msg): logs, then raises SamplingError
log_and_raise_exception(msg, key) == Exc("SamplingError", msg, key)

\* the parameter list: constants keys, then parameters keys
_parameters_constants_parameters_only(data) ==
    (IF Has(data, "constants") THEN Keys(data.constants) ELSE << >>)
    \o (IF Has(data, "parameters") THEN Keys(data.parameters) ELSE << >>)

_check_variables_existence(data) ==
    IF ~Has(data, "constants") /\ ~Has(data, "parameters")
    THEN log_and_raise_exception("existence", "none")
    ELSE IF Has(data, "parameters") /\ data.parameters = << >>
    THEN log_and_raise_exception("existence", "parameters")
    ELSE Ok

_check_variables_for_dups(data) ==
    LET both == IF Has(data, "constants") /\ Has(data, "parameters")
                THEN SeqToSet(Keys(data.constants))
                         \cap SeqToSet(Keys(data.parameters))
                ELSE {}
    IN  IF both # {}
        THEN log_and_raise_exception("duplicate", CHOOSE k \in both : TRUE)
        ELSE Ok

\* the first step that raises decides
Then(a, b) == IF a.exc # "none" THEN a ELSE b

\* BaseSampler.check_validity imposes nothing of its own
Basecheck_validity(data) == Ok

_check_variables(data) ==
    Then(_check_variables_existence(data), _check_variables_for_dups(data))

\* --------------------------------- CrossProductSampler (cross_product.py)
CPcheck_validity(data) ==
    Then(_check_variables_existence(data), _check_variables_for_dups(data))

\* fault: a constructor that forgets to validate
CrossProductSampler__init__unchecked(data) == Ok

\* __init__: super().__init__(data); self.check_validity()
CrossProductSampler__init__(data) == CPcheck_validity(data)

\* fault: a parameter list that leaves the constants out
CPparameters_without_constants(data) ==
    IF Has(data, "parameters") THEN Keys(data.parameters) ELSE << >>

CPparameters(data) ==
    (IF Has(data, "constants") THEN Keys(data.constants) ELSE << >>)
    \o (IF Has(data, "parameters") THEN Keys(data.parameters) ELSE << >>)

\* iterating a `parameters` value: a list yields its items, a mapping its keys
MinKey == Str_(<<"m", "i", "n">>)
MaxKey == Str_(<<"m", "a", "x">>)
Iterate(entry) ==
    IF entry.shape = "list" THEN entry.items
    ELSE (IF "min" \in entry.keys THEN <<MinKey>> ELSE << >>)
         \o (IF "max" \in entry.keys THEN <<MaxKey>> ELSE << >>)

\* product_list: one one-element axis per constant, then one axis per parameter
product_list(data) ==
    (IF Has(data, "constants")
     THEN [i \in 1..Len(data.constants) |-> <<data.constants[i].v>>]
     ELSE << >>)
    \o (IF Has(data, "parameters")
        THEN [i \in 1..Len(data.parameters) |-> Iterate(data.parameters[i].v)]
        ELSE << >>)

\* fault: a product whose first axis varies fastest
RECURSIVE product_first_fastest(_)
product_first_fastest(pools) ==
    IF pools = << >> THEN << << >> >>
    ELSE LET rest == product_first_fastest(Tail(pools))
             pool == Head(pools)
             m == Len(pool)
         IN  [k \in 1..(Len(rest) * m) |->
                 <<pool[((k - 1) % m) + 1]>> \o rest[((k - 1) \div m) + 1]]

\* fault: zip(*pools) in place of the product
RECURSIVE ShortestPool(_)
ShortestPool(pools) ==
    IF Len(pools) = 1 THEN Len(pools[1])
    ELSE LET r == ShortestPool(Tail(pools))
         IN  IF Len(pools[1]) < r THEN Len(pools[1]) ELSE r
zip_pools(pools) ==
    IF pools = << >> THEN << >>
    ELSE [k \in 1..ShortestPool(pools) |-> [j \in 1..Len(pools) |-> pools[j][k]]]

\* itertools.product(*pools):
\*   result = [[]]
\*   for pool in pools: result = [x + [y] for x in result for y in pool]
RECURSIVE itertools_product(_)
itertools_product(pools) ==
    IF pools = << >> THEN << << >> >>
    ELSE LET n == Len(pools)
             prev == itertools_product(SubSeq(pools, 1, n - 1))
             pool == pools[n]
             m == Len(pool)
         IN  [k \in 1..(Len(prev) * m) |->
                 Append(prev[((k - 1) \div m) + 1], pool[((k - 1) % m) + 1])]

\* new_sample = {}; for i, key in enumerate(keys): new_sample[key] = sample[i]
RECURSIVE zip_sample(_, _, _)
zip_sample(keys, sample, i) ==
    IF i = 0 THEN EmptySample
    ELSE SampleSet(zip_sample(keys, sample, i - 1), keys[i], sample[i])

CPcompute(data) ==
    LET sample_list == itertools_product(product_list(data))
        keys == CPparameters(data)
    IN  [k \in 1..Len(sample_list) |->
            zip_sample(keys, sample_list[k], Len(keys))]

\* fault: get_samples without the cache test
CPget_samples_uncached(cache, data) ==
    [cache |-> Cached(CPcompute(data)), computed |-> TRUE, value |-> CPcompute(data)]

\* get_samples: the cache and the value returned
CPget_samples(cache, data) ==
    IF ~cache.isNone
    THEN [cache |-> cache, computed |-> FALSE, value |-> cache.list]
    ELSE LET l == CPcompute(data)
         IN  [cache |-> Cached(l), computed |-> TRUE, value |-> l]

\* ------------------------------- UQPipelineSampler (uqpipeline_sample.py)
Digits == {"0", "1", "2", "3", "4", "5", "6", "7", "8", "9"}

\* float(str): an optional sign, then digits with at most one point
IsFloatLiteral(chars) ==
    LET body == IF chars # << >> /\ chars[1] \in {"+", "-"} THEN Tail(chars) ELSE chars
    IN  /\ \E i \in 1..Len(body) : body[i] \in Digits
        /\ \A i \in 1..Len(body) : body[i] \in Digits \cup {"."}
        /\ Cardinality({i \in 1..Len(body) : body[i] = "."}) <= 1

\* float(x)
float(x) ==
    CASE x.t \in {"int", "float"} -> Ok
      [] x.t = "str" -> IF IsFloatLiteral(x.s) THEN Ok
                        ELSE Exc("ValueError", "none", "none")
      [] OTHER -> Exc("TypeError", "none", "none")

\* value[key] on a `parameters` value
Subscript(value, key) ==
    IF value.shape # "map" THEN Exc("TypeError", "none", key)
    ELSE IF key \notin value.keys THEN Exc("KeyError", "none", key)
    ELSE Ok

Field(value, key) == IF key = "min" THEN value.min ELSE value.max

\* try: float(value[bound]) except ValueError: log_and_raise_exception(...)
check_bound(key, value, bound) ==
    LET sub == Subscript(value, bound)
        conv == float(Field(value, bound))
    IN  IF sub.exc # "none" THEN sub
        ELSE IF conv.exc = "ValueError" THEN log_and_raise_exception(bound, key)
        ELSE conv

RECURSIVE check_bounds(_, _)
check_bounds(params, i) ==
    IF i > Len(params) THEN Ok
    ELSE Then(check_bound(params[i].k, params[i].v, "min"),
         Then(check_bound(params[i].k, params[i].v, "max"),
              check_bounds(params, i + 1)))

UQcheck_validity(data) ==
    Then(Basecheck_validity(data),
    Then(_check_variables(data),
    Then(IF Has(data, "previous_samples")
         THEN log_and_raise_exception("previous_samples", "previous_samples")
         ELSE Ok,
         IF ~Has(data, "parameters") THEN Exc("KeyError", "none", "parameters")
         ELSE check_bounds(data.parameters, 1))))

\* __init__: super().__init__(data); self.check_validity()
UQPipelineSampler__init__(data) == UQcheck_validity(data)

UQparameters(data) == _parameters_constants_parameters_only(data)

\* value["max"] - value["min"]
Subtract(a, b) ==
    IF a.t \in {"int", "float"} /\ b.t \in {"int", "float"} THEN Ok
    ELSE Exc("TypeError", "none", "none")

\* lines 141-144: min_dict, range_dict and box, one parameter
box_entry(value) ==
    Then(Subscript(value, "min"),
    Then(Subscript(value, "max"),
         Subtract(value.max, value.min)))

RECURSIVE box_loop(_, _)
box_loop(params, i) ==
    IF i > Len(params) THEN Ok
    ELSE Then(box_entry(params[i].v), box_loop(params, i + 1))

box(data) == [i \in 1..Len(data.parameters) |->
                 <<data.parameters[i].v.min.n, data.parameters[i].v.max.n>>]

\* range(self.data["num_samples"])
range(data) ==
    IF ~Has(data, "num_samples") THEN Exc("KeyError", "none", "num_samples")
    ELSE IF data.num_samples.t # "int" THEN Exc("TypeError", "none", "num_samples")
    ELSE Ok

num_points(data) == IF data.num_samples.n > 0 THEN data.num_samples.n ELSE 0

\* what get_samples does before it asks the backend for points: lines
\* 141-144, the loop of uniform draws at 146-151 (whose list line 161
\* discards), and the lookup of the module name `sampler` at line 155,
\* which is bound only when the import at line 20 succeeded
before_points(data, sampler_bound) ==
    Then(IF ~Has(data, "parameters") THEN Exc("KeyError", "none", "parameters")
         ELSE box_loop(data.parameters, 1),
    Then(range(data),
         IF ~sampler_bound THEN Exc("NameError", "none", "sampler") ELSE Ok))

\* the points LatinHyperCubeSampler.sample_points may return: num_points
\* tuples, coordinate j within box[j]
Between(a, b) == IF a <= b THEN a..b ELSE b..a
BoxPoints(bx) ==
    {pt \in [1..Len(bx) -> UNION {Between(bx[j][1], bx[j][2]) : j \in 1..Len(bx)}] :
        \A j \in 1..Len(bx) : pt[j] \in Between(bx[j][1], bx[j][2])}
BackendPoints(n, bx) == [1..n -> BoxPoints(bx)]

PointChoices(data, sampler_bound) ==
    IF before_points(data, sampler_bound).exc = "none"
    THEN BackendPoints(num_points(data), box(data))
    ELSE {<< >>}

\* lines 161-181: zip each point with the parameter names, under the constants
RECURSIVE update_sample(_, _, _)
update_sample(smp, d, i) ==
    IF i = 0 THEN smp
    ELSE SampleSet(update_sample(smp, d, i - 1), d[i].k, d[i].v)

UQsample(data, point) ==
    LET constants == IF Has(data, "constants") THEN data.constants ELSE << >>
        random_dictionary == [j \in 1..Len(data.parameters) |->
                                 [k |-> data.parameters[j].k, v |-> Int_(point[j])]]
    IN  update_sample(update_sample(EmptySample, constants, Len(constants)),
                      random_dictionary, Len(random_dictionary))

\* get_samples: the cache, and the value returned or the exception raised
UQget_samples(cache, data, sampler_bound, points) ==
    IF ~cache.isNone
    THEN [cache |-> cache, computed |-> FALSE, exc |-> Ok, value |-> cache.list]
    ELSE LET e == before_points(data, sampler_bound)
             l == [i \in 1..Len(points) |-> UQsample(data, points[i])]
         IN  IF e.exc # "none"
             THEN [cache |-> Cached(<< >>), computed |-> FALSE, exc |-> e,
                   value |-> << >>]
             ELSE [cache |-> Cached(l), computed |-> TRUE, exc |-> Ok, value |-> l]

\* ------------------------------------------------ dispatch (samplers.py)
\* fault: a registry that also knows the type named in the
\* UQPipelineSampler docstring
SAMPLE_FUNCTIONS_DICT_with_uqpipeline ==
    [t \in {"best_candidate", "column_list", "list", "cross_product", "csv",
            "random", "custom", "uqpipeline"} |->
        IF t = "cross_product" THEN "CrossProductSampler" ELSE "UQPipelineSampler"]

SAMPLE_FUNCTIONS_DICT ==
    [t \in {"best_candidate", "column_list", "list", "cross_product", "csv",
            "random", "custom"} |->
        CASE t = "best_candidate" -> "BestCandidateSampler"
          [] t = "column_list" -> "ColumnListSampler"
          [] t = "list" -> "ListSampler"
          [] t = "cross_product" -> "CrossProductSampler"
          [] t = "csv" -> "CsvSampler"
          [] t = "random" -> "RandomSampler"
          [] t = "custom" -> "CustomSampler"]

\* sampler(sampler_data): the constructor of the class looked up.  The
\* classes other than CrossProductSampler live in modules whose outcome the
\* caller of this operator supplies (ext).
Construct(cls, data, ext) ==
    IF cls = "CrossProductSampler" THEN CrossProductSampler__init__(data) ELSE ext

check_validity(cls, data, ext) ==
    IF cls = "CrossProductSampler" THEN CPcheck_validity(data) ELSE ext

\* BaseSampler.is_valid: True, False on SamplingError; anything else escapes
is_valid(v) ==
    IF v.exc = "none" THEN [exc |-> "none", value |-> TRUE]
    ELSE IF v.exc = "SamplingError" THEN [exc |-> "none", value |-> FALSE]
    ELSE [exc |-> v.exc, value |-> FALSE]

Dispatched(outcome, cls, nctor) ==
    [outcome |-> outcome, cls |-> cls, nctor |-> nctor]

new_sampler(data, ext1, ext2) ==
    IF ~Has(data, "type")
    THEN Dispatched(log_and_raise_exception("no_type", "type"), "none", 0)
    ELSE IF data.type \notin DOMAIN SAMPLE_FUNCTIONS_DICT
    THEN Dispatched(log_and_raise_exception("unrecognized", "type"), "none", 0)
    ELSE LET sampler == SAMPLE_FUNCTIONS_DICT[data.type]
             trial == Construct(sampler, data, ext1)
             valid == is_valid(check_validity(sampler, data, ext2))
         IN  IF trial.exc # "none" THEN Dispatched(trial, "none", 1)
             ELSE IF valid.exc # "none"
             THEN Dispatched(Exc(valid.exc, "none", "none"), "none", 1)
             ELSE IF valid.value
             THEN Dispatched(Construct(sampler, data, ext1), sampler, 2)
             ELSE Dispatched(log_and_raise_exception("invalid", "none"), "none", 1)

\* ------------------------------------------------------------ inputs
NameSeq == <<"X1", "X2", "X3", "X4">>
ListValues == {Int_(5), Int_(10)}

SeqsUpTo(S, n) == UNION {[1..k -> S] : k \in 0..n}

CrossEntries == {ListEntry(items) : items \in SeqsUpTo(ListValues, MaxLen)}

\* constants X1: 20, X2: 21, ... in declaration order
CrossConstants ==
    {[i \in 1..c |-> [k |-> NameSeq[i], v |-> Int_(19 + i)]] : c \in 0..MaxConstants}

\* parameters named by a run of consecutive names, so that a parameter may
\* or may not be named like a constant
\* parameters named by a run of consecutive names, so that a parameter may
\* or may not be named like a constant
CrossParameters(n, start, e) ==
    [i \in 1..n |-> [k |-> NameSeq[start + i - 1], v |-> e[i]]]

\* sampler_data is a cross-product configuration
InitCrossConfig ==
    \E ks \in SUBSET {"constants", "parameters"}, c \in CrossConstants,
       n \in 0..MaxParams :
        \E start \in 1..(Len(NameSeq) - n + 1), e \in [1..n -> CrossEntries] :
            /\ "constants" \notin ks => c = << >>
            /\ "parameters" \notin ks => n = 0
            /\ n = 0 => start = 1
            /\ sampler_data = Config({"type"} \cup ks, "cross_product", c,
                                     CrossParameters(n, start, e), None_)

\* every absent key carries the default field
Canonical(data) ==
    /\ (~Has(data, "constants") => data.constants = << >>)
    /\ (~Has(data, "parameters") => data.parameters = << >>)
    /\ (~Has(data, "num_samples") => data.num_samples = None_)
    /\ (~Has(data, "type") => data.type = "")

ExampleConstants == <<[k |-> "X1", v |-> Int_(20)]>>
ExampleParameters ==
    <<[k |-> "X2", v |-> ListEntry(<<Int_(5), Int_(10)>>)],
      [k |-> "X3", v |-> ListEntry(<<Int_(5), Int_(10)>>)]>>

TypeInputs == (DOMAIN SAMPLE_FUNCTIONS_DICT) \cup {"uqpipeline", "latin_hypercube"}

DispatchConfigs ==
    {Config(ks, IF "type" \in ks THEN t ELSE "", c, ExampleParameters, None_) :
        ks \in {{"constants", "parameters"}, {"type", "constants", "parameters"}},
        t \in TypeInputs,
        c \in {ExampleConstants, <<[k |-> "X2", v |-> Int_(20)]>>}}

\* range configurations: {min, max} mappings of every shape, and a list
Interval(lo, hi) == MapEntry({"min", "max"}, Int_(lo), Int_(hi))
NotANumber == Str_(<<"a", "b">>)
RangeEntries ==
    {Interval(5, 6),
     MapEntry({"min", "max"}, Str_(<<"5">>), Int_(6)),
     MapEntry({"min", "max"}, Str_(<<"5">>), Str_(<<"6", ".", "5">>)),
     MapEntry({"min", "max"}, NotANumber, Int_(6)),
     MapEntry({"min", "max"}, Int_(5), NotANumber),
     MapEntry({"min", "max"}, None_, Int_(6)),
     MapEntry({"min", "max"}, Int_(5), None_),
     MapEntry({"max"}, None_, Int_(6)),
     MapEntry({"min"}, Int_(5), None_),
     ListEntry(<<Int_(5), Int_(10)>>)}

RangeParameters ==
    {<< >>}
    \cup {<<[k |-> "X2", v |-> e]>> : e \in RangeEntries}
    \cup {<<[k |-> "X2", v |-> e2], [k |-> "X3", v |-> e3]>> :
             e2 \in {Interval(5, 6), MapEntry({"min", "max"}, NotANumber, Int_(6))},
             e3 \in {Interval(7, 8), MapEntry({"min", "max"}, Int_(7), NotANumber)}}

RangeConstants ==
    {<< >>, <<[k |-> "X1", v |-> Int_(20)]>>, <<[k |-> "X2", v |-> Int_(20)]>>}

NumSamplesInputs == {Int_(-1), Int_(0), Int_(1), Int_(2), Float_(25)}

RangeConfigs ==
    {Config({"type"} \cup ks, "uqpipeline", c, p, n) :
        ks \in {k \in SUBSET {"constants", "parameters", "num_samples",
                              "previous_samples"} :
                   "previous_samples" \in k => "parameters" \in k},
        c \in RangeConstants, p \in RangeParameters,
        n \in NumSamplesInputs \cup {None_}}

InitConfigs == {d \in DispatchConfigs \cup RangeConfigs : Canonical(d)}

\* what a constructor or check_validity of another module may do
ExternalOutcomes == {Ok, Exc("SamplingError", "variant", "none")}

\* ------------------------------------------------------------ actions
Init ==
    /\ InitCrossConfig \/ sampler_data \in InitConfigs
    /\ inst = "none"
    /\ _samples = NotComputed
    /\ call = NoCall
    /\ ctor_calls = 0
    /\ UQPIPELINE_SAMPLE = FALSE
    /\ module = "unloaded"
    /\ nmut = 0

\* the caller runs CrossProductSampler(sampler_data)
CPConstruct ==
    /\ call.op = "none"
    /\ LET v == CrossProductSampler__init__(sampler_data)
       IN  /\ call' = IF v.exc = "none"
                      THEN Returned("CrossProductSampler", sampler_data, FALSE, << >>)
                      ELSE Raised("CrossProductSampler", sampler_data, v)
           /\ inst' = IF v.exc = "none" THEN "CrossProductSampler" ELSE "none"
    /\ _samples' = NotComputed
    /\ ctor_calls' = ctor_calls + 1
    /\ UNCHANGED <<sampler_data, UQPIPELINE_SAMPLE, module, nmut>>

\* the caller runs new_sampler(sampler_data)
NewSampler ==
    /\ call.op = "none"
    /\ \E ext1 \in ExternalOutcomes, ext2 \in ExternalOutcomes :
         LET r == new_sampler(sampler_data, ext1, ext2)
         IN  /\ call' = IF r.outcome.exc = "none"
                        THEN Returned("new_sampler", sampler_data, FALSE, << >>)
                        ELSE Raised("new_sampler", sampler_data, r.outcome)
             /\ inst' = r.cls
             /\ ctor_calls' = ctor_calls + r.nctor
    /\ _samples' = NotComputed
    /\ UNCHANGED <<sampler_data, UQPIPELINE_SAMPLE, module, nmut>>

\* the caller runs get_samples() on a CrossProductSampler
CPGetSamples ==
    /\ inst = "CrossProductSampler"
    /\ LET r == CPget_samples(_samples, sampler_data)
       IN  /\ _samples' = r.cache
           /\ call' = Returned("get_samples", sampler_data, r.computed, r.value)
    /\ UNCHANGED <<sampler_data, inst, ctor_calls, UQPIPELINE_SAMPLE, module, nmut>>

\* the interpreter imports uqpipeline_sample.py: the probe of lines 15-21,
\* the class, then the module-level calls on `sampler` from line 185 on
ImportModule ==
    /\ module = "unloaded"
    /\ call.op = "none"
    /\ \E installed \in BOOLEAN :
         /\ UQPIPELINE_SAMPLE' = installed
         /\ module' = IF installed THEN "loaded" ELSE "failed"
         /\ call' = IF installed
                    THEN Returned("import", sampler_data, FALSE, << >>)
                    ELSE Raised("import", sampler_data,
                                Exc("NameError", "none", "sampler"))
    /\ UNCHANGED <<sampler_data, inst, _samples, ctor_calls, nmut>>

\* the caller runs UQPipelineSampler(sampler_data)
UQConstruct ==
    /\ module = "loaded"
    /\ call.op = "import"
    /\ LET v == UQPipelineSampler__init__(sampler_data)
       IN  /\ call' = IF v.exc = "none"
                      THEN Returned("UQPipelineSampler", sampler_data, FALSE, << >>)
                      ELSE Raised("UQPipelineSampler", sampler_data, v)
           /\ inst' = IF v.exc = "none" THEN "UQPipelineSampler" ELSE "none"
    /\ _samples' = NotComputed
    /\ ctor_calls' = ctor_calls + 1
    /\ UNCHANGED <<sampler_data, UQPIPELINE_SAMPLE, module, nmut>>

\* the caller runs get_samples() on a UQPipelineSampler
UQGetSamples ==
    /\ inst = "UQPipelineSampler"
    /\ \E points \in PointChoices(sampler_data, UQPIPELINE_SAMPLE) :
         LET r == UQget_samples(_samples, sampler_data, UQPIPELINE_SAMPLE, points)
         IN  /\ _samples' = r.cache
             /\ call' = IF r.exc.exc = "none"
                        THEN Returned("get_samples", sampler_data, r.computed, r.value)
                        ELSE Raised("get_samples", sampler_data, r.exc)
    /\ UNCHANGED <<sampler_data, inst, ctor_calls, UQPIPELINE_SAMPLE, module, nmut>>

\* the caller changes the configuration mapping the instance holds
SetConstant(data, k, v) ==
    [data EXCEPT !.constants = DictSet(@, k, v)]
DelParameter(data, k) ==
    [data EXCEPT !.parameters = DictDel(@, k)]

MutateConstants ==
    /\ inst \in {"CrossProductSampler", "UQPipelineSampler"}
    /\ call.op = "get_samples"
    /\ nmut < MaxMutations
    /\ Has(sampler_data, "constants")
    /\ sampler_data' = SetConstant(sampler_data, "X1", Int_(7))
    /\ nmut' = nmut + 1
    /\ UNCHANGED <<inst, _samples, call, ctor_calls, UQPIPELINE_SAMPLE, module>>

MutateParameters ==
    /\ inst \in {"CrossProductSampler", "UQPipelineSampler"}
    /\ call.op = "get_samples"
    /\ nmut < MaxMutations
    /\ Has(sampler_data, "parameters")
    /\ sampler_data.parameters # << >>
    /\ sampler_data' = DelParameter(sampler_data, sampler_data.parameters[1].k)
    /\ nmut' = nmut + 1
    /\ UNCHANGED <<inst, _samples, call, ctor_calls, UQPIPELINE_SAMPLE, module>>

SetNumSamples(data, v) ==
    [data EXCEPT !.keys = @ \cup {"num_samples"}, !.num_samples = v]
DelNumSamples(data) ==
    [data EXCEPT !.keys = @ \ {"num_samples"}, !.num_samples = None_]

MutateNumSamples ==
    /\ inst = "UQPipelineSampler"
    /\ call.op = "get_samples"
    /\ nmut < MaxMutations
    /\ \/ sampler_data' = SetNumSamples(sampler_data, Int_(1))
       \/ /\ Has(sampler_data, "num_samples")
          /\ sampler_data' = DelNumSamples(sampler_data)
    /\ nmut' = nmut + 1
    /\ UNCHANGED <<inst, _samples, call, ctor_calls, UQPIPELINE_SAMPLE, module>>

Next ==
    \/ ImportModule
    \/ CPConstruct
    \/ UQConstruct
    \/ NewSampler
    \/ CPGetSamples
    \/ UQGetSamples
    \/ MutateConstants
    \/ MutateParameters
    \/ MutateNumSamples

Spec == Init /\ [][Next]_vars

\* the cross-product sampler alone, run once on each configuration
NextCrossProduct ==
    \/ CPConstruct
    \/ NewSampler
    \/ CPGetSamples

SpecCrossProduct == Init /\ [][NextCrossProduct]_vars

\* ------------------------------------------------------------ claims
\* a configuration the cross-product validation accepts, in the documented
\* shape (every `parameters` value a list)
ValidCrossConfiguration(data) ==
    /\ Has(data, "constants") \/ Has(data, "parameters")
    /\ Has(data, "parameters") => data.parameters # << >>
    /\ \A i \in 1..Len(data.constants) : \A j \in 1..Len(data.parameters) :
           data.constants[i].k # data.parameters[j].k
    /\ \A j \in 1..Len(data.parameters) : data.parameters[j].v.shape = "list"

\* the axes of a configuration and their names, declared independently of
\* get_samples: constants first, each a one-element axis, then parameters
AxisNames(data) == Keys(data.constants) \o Keys(data.parameters)
Axes(data) ==
    [i \in 1..Len(data.constants) |-> <<data.constants[i].v>>]
    \o [j \in 1..Len(data.parameters) |-> data.parameters[j].v.items]

RECURSIVE ProductOfLengths(_, _)
ProductOfLengths(axes, from) ==
    IF from > Len(axes) THEN 1
    ELSE Len(axes[from]) * ProductOfLengths(axes, from + 1)

\* the value of axis j in the k-th tuple (k from 1) of the lexicographic
\* product: axis j advances once every Stride(j) tuples
TupleValue(axes, k, j) ==
    LET stride == ProductOfLengths(axes, j + 1)
    IN  axes[j][(((k - 1) \div stride) % Len(axes[j])) + 1]

LexicographicSamples(data) ==
    LET axes == Axes(data)
        names == AxisNames(data)
    IN  [k \in 1..ProductOfLengths(axes, 1) |->
            [x \in SeqToSet(names) |->
                TupleValue(axes, k, CHOOSE j \in 1..Len(names) : names[j] = x)]]

FirstCrossProductRun ==
    /\ inst = "CrossProductSampler"
    /\ call.op = "get_samples"
    /\ call.status = "returned"
    /\ call.computed
    /\ ValidCrossConfiguration(call.data)

IsExample(data) ==
    /\ data.keys = {"type", "constants", "parameters"}
    /\ data.constants = ExampleConstants
    /\ data.parameters = ExampleParameters

ExampleSample(x2, x3) ==
    [x \in {"X1", "X2", "X3"} |->
        IF x = "X1" THEN Int_(20) ELSE IF x = "X2" THEN Int_(x2) ELSE Int_(x3)]

\* C1: on a valid cross-product configuration get_samples() returns the
\* Cartesian product of the axes (constants, then parameters, in declaration
\* order) in lexicographic order, the last axis varying fastest; the
\* documented example yields its four samples in the documented order.
C1_LexicographicOrder ==
    FirstCrossProductRun =>
        /\ call.value = LexicographicSamples(call.data)
        /\ IsExample(call.data) =>
              call.value = <<ExampleSample(5, 5), ExampleSample(5, 10),
                             ExampleSample(10, 5), ExampleSample(10, 10)>>

C1_Witness ==
    /\ FirstCrossProductRun
    /\ IsExample(call.data)
    /\ Len(call.value) = 4

\* C2: the number of samples is the product of the lengths of the
\* `parameters` value sequences, whatever the number of constants.
C2_SampleCount ==
    FirstCrossProductRun =>
        Len(call.value) =
            ProductOfLengths([j \in 1..Len(call.data.parameters) |->
                                 call.data.parameters[j].v.items], 1)

C2_Witness ==
    /\ FirstCrossProductRun
    /\ Len(call.data.constants) >= 1
    /\ Len(call.data.parameters) = 2
    /\ Len(call.value) = 4

\* C3: every sample's key set is exactly the parameter list (constants keys,
\* then parameters keys), and the value under a key comes from its own axis.
C3_SampleKeys ==
    FirstCrossProductRun =>
        /\ CPparameters(call.data) = AxisNames(call.data)
        /\ \A k \in 1..Len(call.value) :
              /\ DOMAIN call.value[k] = SeqToSet(AxisNames(call.data))
              /\ \A j \in 1..Len(AxisNames(call.data)) :
                    call.value[k][AxisNames(call.data)[j]]
                        \in SeqToSet(Axes(call.data)[j])

C3_Witness ==
    /\ FirstCrossProductRun
    /\ Len(call.data.constants) >= 1
    /\ Len(call.data.parameters) >= 1
    /\ Len(call.value) >= 2

\* C4: once a get_samples() call has returned, the cache never changes and
\* every later get_samples() call on the instance returns that same list
\* without computing, whatever the caller did to the configuration between.
C4_Memoized ==
    [][(call.op = "get_samples" /\ call.status = "returned") =>
          /\ _samples' = _samples
          /\ call'.op = "get_samples"
          /\ call'.status = "returned"
          /\ call'.value = call.value
          /\ (call' # call => ~call'.computed)]_vars

\* a second call, made after a mutation under which a fresh computation
\* would give another list
C4_Witness ==
    /\ inst = "CrossProductSampler"
    /\ nmut > 0
    /\ call.op = "get_samples"
    /\ call.status = "returned"
    /\ ~call.computed
    /\ call.data = sampler_data
    /\ call.value # << >>
    /\ CPcompute(sampler_data) # call.value

RegisteredTypes ==
    {"best_candidate", "column_list", "list", "cross_product", "csv", "random",
     "custom"}

C6_WorksWithoutBackend ==
    (module # "unloaded" /\ ~UQPIPELINE_SAMPLE) =>
        /\ module = "loaded"
        /\ call.exc # "NameError"
        /\ (inst = "UQPipelineSampler" /\ call.op = "get_samples" /\ call.computed)
              => Len(call.value) = num_points(call.data)

\* a `parameters` entry whose min or max is not numeric
NumericBound(v) ==
    \/ v.t \in {"int", "float"}
    \/ v.t = "str" /\ IsFloatLiteral(v.s)
NonNumericEntry(e) ==
    \/ e.shape # "map"
    \/ e.keys # {"min", "max"}
    \/ ~NumericBound(e.min)
    \/ ~NumericBound(e.max)

\* C7: constructing a range sampler on a configuration with a non-numeric
\* min or max fails with SamplingError, for every shape of such an entry.
C7_NonNumericBoundIsSamplingError ==
    (/\ call.op = "UQPipelineSampler"
     /\ \E j \in 1..Len(call.data.parameters) :
           NonNumericEntry(call.data.parameters[j].v)) =>
        /\ call.status = "raised"
        /\ call.exc = "SamplingError"

\* C8: every successfully constructed range sampler has a positive integer
\* num_samples.
C8_NumSamplesValidated ==
    (call.op = "UQPipelineSampler" /\ call.status = "returned") =>
        /\ Has(call.data, "num_samples")
        /\ call.data.num_samples.t = "int"
        /\ call.data.num_samples.n > 0

InvalidCrossProductRequest ==
    /\ call.op = "new_sampler"
    /\ Has(call.data, "type")
    /\ call.data.type = "cross_product"
    /\ ~ValidCrossConfiguration(call.data)

C10_NoPartialResults ==
    (call.op = "get_samples" /\ call.status = "raised") => _samples.isNone

====
